---- MODULE Spec2Model ----
(***************************************************************************)
(* A model of the agent graph of agent/agent.py (chat_node, tool_node and  *)
(* the routing between them) and of the weather tools of                    *)
(* agent/tools/weather.py (name resolution, the weather service and the    *)
(* three tool functions).                                                   *)
(***************************************************************************)
EXTENDS Integers, Sequences, FiniteSets, TLC

VARIABLES
    \* ---- agent.py: AgentState and the position of a run of the graph
    pc,                 \* the node the graph runs next: "chat_node", "tool_node", "END"
    messages,           \* AgentState.messages (MessagesState)
    proverbs,           \* AgentState.proverbs
    weather_cards,      \* AgentState.weather_cards
    tools,              \* AgentState.tools (the tools the AG-UI client declared)
    response,           \* chat_node: the response of the last model call
    backend_tool_calls, \* chat_node: local list of the last call
    ag_ui_tool_calls,   \* chat_node: local list of the last call
    trace,              \* history: the nodes executed so far, in order
    \* ---- tools/weather.py
    weather_service,    \* module-level weather_service: "None" or "AmapWeatherService"
    city_to_adcode,     \* CityCodeMapper.city_to_adcode, in insertion order
    call,               \* the last invocation: operation and arguments
    result,             \* what the last invocation returned (or that it raised)
    resolve_calls,      \* number of _get_adcode calls made by the last invocation
    http_requests       \* number of requests.get calls made by the last invocation

graphVars == <<pc, messages, proverbs, weather_cards, tools, response,
               backend_tool_calls, ag_ui_tool_calls, trace>>
weatherVars == <<weather_service, city_to_adcode, call, result,
                 resolve_calls, http_requests>>
vars == <<graphVars, weatherVars>>

----------------------------------------------------------------------------
(* Bounds of the model *)

\* longest tool_calls list a model response carries
MaxCalls == 2
\* number of node executions of one run of the graph that are explored
MaxSteps == 4

----------------------------------------------------------------------------
(* agent.py *)

\* the name of the one tool in backend_tools
backend_tool_names == {"get_weather"}

\* tool_call.get("name") of a call that has no name
NoName == "None"

\* names a model may put in a tool call: the backend tool, tools of the
\* AG-UI client, a name nobody declared, and no name at all
ToolCallNames ==
    {"get_weather", "add_weather_card_to_center", "unknown_tool", NoName}

\* a response without a tool_calls attribute: getattr(...) gives None
NoToolCalls == [has_tool_calls |-> FALSE, tool_calls |-> <<>>]

\* a list of tool calls with the given names; id is the call's own identity
MkCalls(names) == [i \in 1..Len(names) |-> [name |-> names[i], id |-> i]]

NameSeqs == UNION {[1..n -> ToolCallNames] : n \in 0..MaxCalls}

\* every response model_with_tools.ainvoke may return
Responses ==
    {NoToolCalls} \cup
    {[has_tool_calls |-> TRUE, tool_calls |-> MkCalls(s)] : s \in NameSeqs}

\* getattr(response, "tool_calls", None) is truthy
Truthy(r) == r.has_tool_calls /\ Len(r.tool_calls) > 0

IsBackendCall(tc) == tc.name \in backend_tool_names
IsAgUiCall(tc) == ~(tc.name \in backend_tool_names)

\* chat_node, the for loop: the two lists after the loop
PartitionBackend(r) ==
    IF Truthy(r) THEN SelectSeq(r.tool_calls, IsBackendCall) ELSE <<>>
\* mutant: a call without a name is dropped
PartitionAgUi_named(r) ==
    IF Truthy(r)
    THEN SelectSeq(SelectSeq(r.tool_calls, IsAgUiCall),
                   LAMBDA tc : tc.name # NoName)
    ELSE <<>>
PartitionAgUi(r) ==
    IF Truthy(r) THEN SelectSeq(r.tool_calls, IsAgUiCall) ELSE <<>>

\* mutant: AG-UI calls are looked at first, a mixed response ends the run
ChatGoto_agUiFirst(r) ==
    IF Truthy(r)
    THEN IF Len(PartitionAgUi(r)) > 0 THEN "END"
         ELSE IF Len(PartitionBackend(r)) > 0 THEN "tool_node"
         ELSE "END"
    ELSE "END"

\* chat_node: the goto of the Command it returns
ChatGoto(r) ==
    IF Truthy(r)
    THEN IF Len(PartitionBackend(r)) > 0 THEN "tool_node"
         ELSE IF Len(PartitionAgUi(r)) > 0 THEN "END"
         ELSE "END"
    ELSE "END"

\* the AIMessage a model call returns
AIMessage(r) == [type |-> "ai", content |-> r]

\* mutant: the backend tool calls are taken out of the stored response
ChatUpdate_filtered(r) ==
    [messages |-> <<AIMessage([has_tool_calls |-> r.has_tool_calls,
                               tool_calls |-> PartitionAgUi(r)])>>]

\* chat_node: the update of the Command it returns (the same dict on all
\* three returns)
ChatUpdate(r) == [messages |-> <<AIMessage(r)>>]

\* MessagesState: the add_messages reducer appends the update
add_messages(left, right) == left \o right

\* a field of AgentState after a Command's update: messages goes through its
\* reducer, any other key of the update overwrites, the rest is kept
Updated(field, old, update) ==
    IF field \in DOMAIN update
    THEN IF field = "messages" THEN add_messages(old, update[field])
         ELSE update[field]
    ELSE old

\* route_to_tool_node: the loop with its early return, from call i on
RECURSIVE RouteFrom(_, _)
RouteFrom(calls, i) ==
    IF i > Len(calls) THEN FALSE
    ELSE IF calls[i].name \in backend_tool_names THEN TRUE
    ELSE RouteFrom(calls, i + 1)

\* mutant: only the first tool call is looked at
route_to_tool_node_first(r) ==
    IF ~Truthy(r) THEN FALSE
    ELSE r.tool_calls[1].name \in backend_tool_names

route_to_tool_node(r) ==
    IF ~Truthy(r) THEN FALSE ELSE RouteFrom(r.tool_calls, 1)

\* mutants: the graph starts at tool_node; tool_node leads to END
EntryPoint_tool == "tool_node"
EdgeFromToolNode_end == "END"

\* workflow.set_entry_point and workflow.add_edge
EntryPoint == "chat_node"
EdgeFromToolNode == "chat_node"

\* ToolNode(tools=backend_tools): one ToolMessage for every tool call of the
\* last AI message; a call of a tool it does not hold yields an error message
ToolMessages(calls) ==
    [i \in 1..Len(calls) |->
        [type |-> "tool",
         content |-> IF calls[i].name \in backend_tool_names
                     THEN "The weather for location is 70 degrees."
                     ELSE "Error: not a valid tool"]]

----------------------------------------------------------------------------
(* tools/weather.py: strings *)

\* longest city name and longest free-form location that is explored
MaxNameLen == 2
\* most rows of the CSV file (name resolution alone)
MaxRows == 2
\* most rows of the CSV file when the tools are called
MaxToolRows == 1
\* _get_adcode: the length of a location that is taken for an adcode
AdcodeLen == 6

\* a string is a sequence of characters
Alphabet == {"x", "1"}
Digits == {"0", "1", "2", "3", "4", "5", "6", "7", "8", "9"}

Strings(n) == UNION {[1..k -> Alphabet] : k \in 0..n}
DigitString(n) == [i \in 1..n |-> "1"]

\* Python's None, where a string is expected
None == <<"<None>">>

\* str.isdigit()
isdigit(s) == Len(s) > 0 /\ \A i \in 1..Len(s) : s[i] \in Digits

\* a in b, for two strings
In(a, b) ==
    \E i \in 0..(Len(b) - Len(a)) : SubSeq(b, i + 1, i + Len(a)) = a

\* the locations a caller passes: short free-form strings, and digit strings
\* around the length of an adcode
Locations ==
    Strings(MaxNameLen) \cup
    {DigitString(AdcodeLen - 1), DigitString(AdcodeLen),
     DigitString(AdcodeLen + 1), Append(DigitString(AdcodeLen - 1), "x")}

----------------------------------------------------------------------------
(* tools/weather.py: CityCodeMapper *)

\* the values of the adcode column of a row: two codes, empty, and \N
AdcodeColumn ==
    {<<"1", "1", "0", "0", "0", "0">>, <<"3", "1", "0", "0", "0", "0">>,
     <<>>, <<"\\N">>}

CsvRows == [name : Strings(MaxNameLen), adcode : AdcodeColumn]
CsvFiles(n) == UNION {[1..k -> CsvRows] : k \in 0..n}

\* a dict as the sequence of its items in insertion order
HasKey(d, k) == \E i \in 1..Len(d) : d[i].city = k
GetItem(d, k) == d[CHOOSE i \in 1..Len(d) : d[i].city = k].adcode
SetItem(d, k, v) ==
    IF HasKey(d, k)
    THEN [i \in 1..Len(d) |->
            IF d[i].city = k THEN [city |-> k, adcode |-> v] ELSE d[i]]
    ELSE Append(d, [city |-> k, adcode |-> v])

\* _load_city_codes: the loop over the rows, from row i on
RECURSIVE LoadFrom(_, _, _)
LoadFrom(csv, i, d) ==
    IF i > Len(csv) THEN d
    ELSE LET city_name == csv[i].name
             adcode == csv[i].adcode
         IN  IF adcode # <<>> /\ adcode # <<"\\N">>
             THEN LoadFrom(csv, i + 1, SetItem(d, city_name, adcode))
             ELSE LoadFrom(csv, i + 1, d)

_load_city_codes(csv) == LoadFrom(csv, 1, <<>>)

\* CityCodeMapper.get_adcode, the loop over the items, from item i on
RECURSIVE PartialFrom(_, _, _)
PartialFrom(d, city_name, i) ==
    IF i > Len(d) THEN None
    ELSE IF In(city_name, d[i].city) \/ In(d[i].city, city_name)
         THEN d[i].adcode
         ELSE PartialFrom(d, city_name, i + 1)

\* mutant: no direct lookup, the first partial match wins
CityCodeMapper_get_adcode_partial(d, city_name) ==
    PartialFrom(d, city_name, 1)

CityCodeMapper_get_adcode(d, city_name) ==
    IF HasKey(d, city_name) THEN GetItem(d, city_name)
    ELSE PartialFrom(d, city_name, 1)

----------------------------------------------------------------------------
(* tools/weather.py: AmapWeatherService *)

\* AmapWeatherService._get_adcode: the adcode, and whether the city mapper
\* was asked
_get_adcode(d, location) ==
    IF isdigit(location) /\ Len(location) = AdcodeLen
    THEN [value |-> location, consulted |-> FALSE]
    ELSE [value |-> CityCodeMapper_get_adcode(d, location), consulted |-> TRUE]

\* what the HTTP request of get_current_weather can come to
HttpOutcomes == {"ok", "request_exception", "bad_json", "status_error", "no_lives"}

\* the exception classes that occur, all subclasses of Exception
ExceptionClasses == {"Exception", "ValueError", "AttributeError"}

\* the outcome of a service call: a value, or an exception; with the number
\* of _get_adcode calls and of HTTP requests it made
Returns(v, resolves, requests) ==
    [raised |-> FALSE, exc |-> "", msg |-> "", value |-> v,
     resolves |-> resolves, requests |-> requests]
Raises(e, m, resolves, requests) ==
    [raised |-> TRUE, exc |-> e, msg |-> m, value |-> <<>>,
     resolves |-> resolves, requests |-> requests]

\* the WeatherInfo built from lives[0] of the answer for adcode
WeatherInfo(adcode) ==
    [city |-> "city", province |-> "province", temperature |-> "temperature",
     weather |-> "weather", humidity |-> "humidity",
     wind_direction |-> "winddirection", wind_power |-> "windpower",
     report_time |-> "reporttime", adcode |-> adcode]

get_current_weather(d, location, http) ==
    LET adcode == _get_adcode(d, location).value IN
    IF adcode = None \/ adcode = <<>>
    THEN Raises("Exception", "Location not found", 1, 0)
    ELSE CASE http = "request_exception" ->
                Raises("Exception", "Failed to make request to Amap API", 1, 1)
           [] http = "bad_json" ->
                Raises("ValueError", "response.json()", 1, 1)
           [] http = "status_error" ->
                Raises("Exception", "Weather API error", 1, 1)
           [] http = "no_lives" ->
                Raises("Exception", "No weather data found for location", 1, 1)
           [] http = "ok" ->
                Returns(WeatherInfo(adcode), 1, 1)

\* format_weather_response: a string made of the fields of the WeatherInfo
format_weather_response(weather) ==
    [text |-> "formatted weather", arg |-> weather]

\* the methods class AmapWeatherService defines
ServiceMethods ==
    {"__init__", "get_current_weather", "_get_adcode", "format_weather_response"}

----------------------------------------------------------------------------
(* tools/weather.py: the tools *)

\* mutant: except ValueError, a narrower handler
Catches_narrow(e) == e = "ValueError"

\* except Exception as e: the exceptions the handler of a tool catches
Catches(e) == e \in ExceptionClasses

MissingKeyText == "missing API key"

\* what a tool returns (or that it raised), with what the service raised
ToolReturns(v, svc) ==
    [raised |-> FALSE, value |-> v, service_exc |-> svc.exc,
     resolves |-> svc.resolves, requests |-> svc.requests]
ToolRaises(svc) ==
    [raised |-> TRUE, value |-> <<>>, service_exc |-> svc.exc,
     resolves |-> svc.resolves, requests |-> svc.requests]
NoServiceCall == Returns(<<>>, 0, 0)

get_weather(service, d, location, http) ==
    IF service = "None"
    THEN ToolReturns([text |-> MissingKeyText, arg |-> <<>>], NoServiceCall)
    ELSE LET w == get_current_weather(d, location, http) IN
         IF ~w.raised
         THEN ToolReturns(format_weather_response(w.value), w)
         ELSE IF Catches(w.exc)
              THEN ToolReturns([text |-> "weather failure", arg |-> w.msg], w)
              ELSE ToolRaises(w)

Max(a, b) == IF a >= b THEN a ELSE b
Min(a, b) == IF a <= b THEN a ELSE b

\* get_weather_forecast: days after max(1, min(3, days))
LimitDays(days) == Max(1, Min(3, days))

\* weather_service.get_weather_forecast(location, days): the attribute lookup
\* on an AmapWeatherService
ServiceForecast(d, location, days, http) ==
    IF "get_weather_forecast" \in ServiceMethods
       /\ "format_forecast_response" \in ServiceMethods
    THEN Returns([text |-> "formatted forecast", arg |-> days], 1, 1)
    ELSE Raises("AttributeError", "get_weather_forecast", 0, 0)

get_weather_forecast(service, d, location, days, http) ==
    IF service = "None"
    THEN ToolReturns([text |-> MissingKeyText, arg |-> <<>>], NoServiceCall)
    ELSE LET f == ServiceForecast(d, location, LimitDays(days), http) IN
         IF ~f.raised
         THEN ToolReturns(f.value, f)
         ELSE IF Catches(f.exc)
              THEN ToolReturns([text |-> "forecast failure", arg |-> f.msg], f)
              ELSE ToolRaises(f)

get_weather_data_for_ui(service, d, location, http) ==
    IF service = "None"
    THEN ToolReturns([error |-> MissingKeyText], NoServiceCall)
    ELSE LET w == get_current_weather(d, location, http) IN
         IF ~w.raised
         THEN ToolReturns([success |-> TRUE, location |-> location,
                           data |-> w.value], w)
         ELSE IF Catches(w.exc)
              THEN ToolReturns([error |-> w.msg], w)
              ELSE ToolRaises(w)

NoCall == [op |-> "none", location |-> <<>>, days |-> 0, http |-> "none"]
NoResult == [raised |-> FALSE, value |-> <<>>, service_exc |-> "",
             resolves |-> 0, requests |-> 0]


WeatherIdle ==
    /\ weather_service = "None"
    /\ city_to_adcode = <<>>
    /\ call = NoCall
    /\ result = NoResult
    /\ resolve_calls = 0
    /\ http_requests = 0

\* the AgentState fields a caller may start a run with
InitialStates ==
    {[proverbs |-> <<>>, weather_cards |-> <<>>, tools |-> <<>>],
     [proverbs |-> <<"a proverb">>, weather_cards |-> <<"card">>,
      tools |-> <<"add_weather_card_to_center">>]}

\* the state a run of the graph starts from
Init ==
    /\ pc = EntryPoint
    /\ messages = <<[type |-> "human", content |-> NoToolCalls]>>
    /\ \E s \in InitialStates :
        /\ proverbs = s.proverbs
        /\ weather_cards = s.weather_cards
        /\ tools = s.tools
    /\ response = NoToolCalls
    /\ backend_tool_calls = <<>>
    /\ ag_ui_tool_calls = <<>>
    /\ trace = <<>>
    /\ WeatherIdle

chat_node ==
    /\ pc = "chat_node"
    /\ Len(trace) < MaxSteps
    /\ \E r \in Responses :
        /\ response' = r
        /\ backend_tool_calls' = PartitionBackend(r)
        /\ ag_ui_tool_calls' = PartitionAgUi(r)
        /\ messages' = Updated("messages", messages, ChatUpdate(r))
        /\ proverbs' = Updated("proverbs", proverbs, ChatUpdate(r))
        /\ weather_cards' = Updated("weather_cards", weather_cards, ChatUpdate(r))
        /\ tools' = Updated("tools", tools, ChatUpdate(r))
        /\ pc' = ChatGoto(r)
        /\ trace' = Append(trace, [node |-> "chat_node", response |-> r])
    /\ UNCHANGED weatherVars

tool_node ==
    /\ pc = "tool_node"
    /\ Len(trace) < MaxSteps
    /\ messages' = add_messages(messages,
                        ToolMessages(messages[Len(messages)].content.tool_calls))
    /\ pc' = EdgeFromToolNode
    /\ trace' = Append(trace, [node |-> "tool_node", response |-> NoToolCalls])
    /\ UNCHANGED <<proverbs, weather_cards, tools, response,
                   backend_tool_calls, ag_ui_tool_calls>>
    /\ UNCHANGED weatherVars

Next == chat_node \/ tool_node

Spec == Init /\ [][Next]_vars

----------------------------------------------------------------------------
(* tools/weather.py as a state machine: the module is imported, then its     *)
(* functions are called                                                      *)

GraphIdle ==
    /\ pc = "not_started"
    /\ messages = <<>>
    /\ proverbs = <<>>
    /\ weather_cards = <<>>
    /\ tools = <<>>
    /\ response = NoToolCalls
    /\ backend_tool_calls = <<>>
    /\ ag_ui_tool_calls = <<>>
    /\ trace = <<>>

NoInvocation ==
    /\ call = NoCall
    /\ result = NoResult
    /\ resolve_calls = 0
    /\ http_requests = 0

\* after import: weather_service is None when AMAP_API_KEY is not set, else
\* an AmapWeatherService whose city mapper has loaded the CSV file
InitWeather ==
    /\ GraphIdle
    /\ NoInvocation
    /\ \/ /\ weather_service = "None"
          /\ city_to_adcode = <<>>
       \/ /\ weather_service = "AmapWeatherService"
          /\ \E csv \in CsvFiles(MaxToolRows) :
                city_to_adcode = _load_city_codes(csv)

\* one invocation is followed per behaviour: the functions read only what
\* the import fixed, so an invocation does not depend on the ones before it
Invoked(c, r) ==
    /\ call' = c
    /\ result' = r
    /\ resolve_calls' = r.resolves
    /\ http_requests' = r.requests
    /\ UNCHANGED <<weather_service, city_to_adcode>>
    /\ UNCHANGED graphVars

DaysValues == {-1, 0, 1, 2, 3, 4, 7}

GetWeather ==
    /\ call = NoCall
    /\ \E location \in Locations, http \in HttpOutcomes :
        Invoked([op |-> "get_weather", location |-> location, days |-> 0,
                 http |-> http],
                get_weather(weather_service, city_to_adcode, location, http))

GetWeatherForecast ==
    /\ call = NoCall
    /\ \E location \in Locations, days \in DaysValues, http \in HttpOutcomes :
        Invoked([op |-> "get_weather_forecast", location |-> location,
                 days |-> days, http |-> http],
                get_weather_forecast(weather_service, city_to_adcode,
                                     location, days, http))

GetWeatherDataForUi ==
    /\ call = NoCall
    /\ \E location \in Locations, http \in HttpOutcomes :
        Invoked([op |-> "get_weather_data_for_ui", location |-> location,
                 days |-> 0, http |-> http],
                get_weather_data_for_ui(weather_service, city_to_adcode,
                                        location, http))

NextWeather == GetWeather \/ GetWeatherForecast \/ GetWeatherDataForUi

SpecWeather == InitWeather /\ [][NextWeather]_vars

\* name resolution alone: a service constructed with an API key, as
\* test_weather_service does, and _get_adcode called on it
InitAdcode ==
    /\ GraphIdle
    /\ NoInvocation
    /\ weather_service = "AmapWeatherService"
    /\ \E csv \in CsvFiles(MaxRows) : city_to_adcode = _load_city_codes(csv)

GetAdcode ==
    /\ call = NoCall
    /\ \E location \in Locations :
        LET a == _get_adcode(city_to_adcode, location) IN
        /\ call' = [op |-> "_get_adcode", location |-> location, days |-> 0,
                    http |-> "none"]
        /\ result' = [raised |-> FALSE, value |-> a.value, service_exc |-> "",
                      resolves |-> IF a.consulted THEN 1 ELSE 0,
                      requests |-> 0]
        /\ resolve_calls' = 1
        /\ http_requests' = 0
        /\ UNCHANGED <<weather_service, city_to_adcode>>
        /\ UNCHANGED graphVars

NextAdcode == GetAdcode

SpecAdcode == InitAdcode /\ [][NextAdcode]_vars

----------------------------------------------------------------------------
(* Properties of the graph (agent.py), checked under Spec *)

ChatRuns == Cardinality({i \in 1..Len(trace) : trace[i].node = "chat_node"})
ToolRuns == Cardinality({i \in 1..Len(trace) : trace[i].node = "tool_node"})
LastNode == IF Len(trace) = 0 THEN "none" ELSE trace[Len(trace)].node

\* the response holds a tool call whose name is a backend tool
HasBackendCall(r) ==
    r.has_tool_calls /\
    \E i \in 1..Len(r.tool_calls) : r.tool_calls[i].name \in backend_tool_names
HasClientCall(r) ==
    r.has_tool_calls /\
    \E i \in 1..Len(r.tool_calls) : r.tool_calls[i].name \notin backend_tool_names

Occurs(x, seq) == \E i \in 1..Len(seq) : seq[i] = x

\* C1: after chat_node has handled a response, every tool call of the
\* response is in exactly one of backend_tool_calls and ag_ui_tool_calls: in
\* the first iff its name is in backend_tool_names, in the second otherwise
\* (also with an unknown or a missing name); the two lists hold nothing else.
C1_Partition ==
    LastNode = "chat_node" /\ response.has_tool_calls =>
        /\ \A i \in 1..Len(response.tool_calls) :
            LET tc == response.tool_calls[i] IN
            /\ Occurs(tc, backend_tool_calls) <=> tc.name \in backend_tool_names
            /\ Occurs(tc, ag_ui_tool_calls) <=> tc.name \notin backend_tool_names
        /\ Len(backend_tool_calls) + Len(ag_ui_tool_calls)
              = Len(response.tool_calls)
        /\ \A i \in 1..Len(backend_tool_calls) :
              Occurs(backend_tool_calls[i], response.tool_calls)
        /\ \A i \in 1..Len(ag_ui_tool_calls) :
              Occurs(ag_ui_tool_calls[i], response.tool_calls)

C1_Witness ==
    /\ LastNode = "chat_node"
    /\ Len(backend_tool_calls) = 1
    /\ Len(ag_ui_tool_calls) = 1
    /\ ag_ui_tool_calls[1].name = NoName

\* C2: right after chat_node the graph goes to tool_node iff the response
\* holds a backend tool call, and to END in every other case.
C2_Routing ==
    LastNode = "chat_node" =>
        /\ pc = "tool_node" <=> HasBackendCall(response)
        /\ pc = "END" <=> ~HasBackendCall(response)

C2_Witness ==
    /\ LastNode = "chat_node"
    /\ pc = "tool_node"
    /\ HasBackendCall(response)
    /\ HasClientCall(response)

\* C3 as stated: in every run tool_node executes at most once and chat_node
\* at most twice.
C3_AtMostOnce == ToolRuns <= 1 /\ ChatRuns <= 2

\* C3 as amended: tool_node has executed once for every chat_node step whose
\* response held a backend tool call (less the one about to run), chat_node
\* has executed as often as tool_node or once more, and exactly once more
\* when the run is at END; the number of rounds is not limited to one.
C3_Alternation ==
    /\ ToolRuns + (IF pc = "tool_node" THEN 1 ELSE 0)
          = Cardinality({i \in 1..Len(trace) :
                            /\ trace[i].node = "chat_node"
                            /\ HasBackendCall(trace[i].response)})
    /\ ChatRuns \in {ToolRuns, ToolRuns + 1}
    /\ pc = "END" => ChatRuns = ToolRuns + 1

C3_Witness == ToolRuns = 2 /\ ChatRuns = 2

\* C7: the first step of a run is chat_node; tool_node runs only right after
\* a chat_node step whose response held a backend tool call; a tool_node
\* step is followed by chat_node; END is reached only from chat_node.
C7_Order ==
    /\ Len(trace) = 0 => pc = "chat_node"
    /\ Len(trace) >= 1 => trace[1].node = "chat_node"
    /\ \A i \in 1..Len(trace) :
          trace[i].node = "tool_node" =>
              /\ i > 1
              /\ trace[i - 1].node = "chat_node"
              /\ HasBackendCall(trace[i - 1].response)
              /\ i < Len(trace) => trace[i + 1].node = "chat_node"
    /\ pc = "tool_node" =>
          LastNode = "chat_node" /\ HasBackendCall(trace[Len(trace)].response)
    /\ LastNode = "tool_node" => pc = "chat_node"
    /\ pc = "END" => LastNode = "chat_node"

C7_Witness ==
    /\ pc = "END"
    /\ Len(trace) = 3
    /\ trace[2].node = "tool_node"

\* C8: route_to_tool_node gives True on a response exactly when chat_node
\* goes to tool_node on it, and False exactly when chat_node goes to END.
C8_RouteAgrees ==
    LastNode = "chat_node" =>
        /\ route_to_tool_node(response) <=> pc = "tool_node"
        /\ ~route_to_tool_node(response) <=> pc = "END"

C8_Witness ==
    /\ LastNode = "chat_node"
    /\ pc = "tool_node"
    /\ Len(response.tool_calls) = 2
    /\ response.tool_calls[1].name \notin backend_tool_names
    /\ route_to_tool_node(response)

\* C9: a chat_node step appends exactly one message, the response as the
\* model returned it, to messages, and leaves proverbs, weather_cards and
\* tools as they were.
C9_Frame ==
    [][pc = "chat_node" /\ pc' # "chat_node" =>
          /\ messages' = Append(messages, AIMessage(response'))
          /\ UNCHANGED <<proverbs, weather_cards, tools>>]_vars

C9_Witness ==
    /\ LastNode = "chat_node"
    /\ HasBackendCall(response)
    /\ HasClientCall(response)
    /\ messages[Len(messages)] = AIMessage(response)
    /\ Len(messages) = 2
    /\ proverbs # <<>>

----------------------------------------------------------------------------
(* Properties of the weather tools, checked under SpecWeather and SpecAdcode *)

ToolOps == {"get_weather", "get_weather_forecast", "get_weather_data_for_ui"}

\* the error value of a tool: a failure string, or for
\* get_weather_data_for_ui a dict with "error" and without "success"
IsErrorValue(op, v) ==
    CASE op = "get_weather" ->
            "text" \in DOMAIN v /\ v.text = "weather failure"
      [] op = "get_weather_forecast" ->
            "text" \in DOMAIN v /\ v.text = "forecast failure"
      [] op = "get_weather_data_for_ui" ->
            "error" \in DOMAIN v /\ "success" \notin DOMAIN v

IsMissingKeyValue(op, v) ==
    IF op = "get_weather_data_for_ui"
    THEN DOMAIN v = {"error"} /\ v.error = MissingKeyText
    ELSE "text" \in DOMAIN v /\ v.text = MissingKeyText

\* C4: a weather tool never raises; without a weather service it returns the
\* missing-API-key value and neither resolves the location nor makes an HTTP
\* request; an exception of the service comes back as the tool's error
\* value; a success result of get_weather_data_for_ui holds "success": True
\* and no "error".
C4_ErrorsReturned ==
    call.op \in ToolOps =>
        /\ ~result.raised
        /\ weather_service = "None" =>
              /\ IsMissingKeyValue(call.op, result.value)
              /\ resolve_calls = 0
              /\ http_requests = 0
        /\ weather_service # "None" /\ result.service_exc # "" =>
              IsErrorValue(call.op, result.value)
        /\ call.op = "get_weather_data_for_ui" =>
              /\ "success" \in DOMAIN result.value =>
                    /\ result.value.success = TRUE
                    /\ "error" \notin DOMAIN result.value
              /\ weather_service # "None" /\ result.service_exc = "" =>
                    "success" \in DOMAIN result.value

C4_Witness ==
    /\ call.op = "get_weather_data_for_ui"
    /\ weather_service # "None"
    /\ result.service_exc = "ValueError"
    /\ http_requests = 1
    /\ "error" \in DOMAIN result.value

SixDigits(s) == Len(s) = 6 /\ \A i \in 1..Len(s) : s[i] \in Digits
ExactAt(d, s, i) == d[i].city = s
PartialAt(d, s, i) == In(s, d[i].city) \/ In(d[i].city, s)

\* C5: _get_adcode returns a string of exactly 6 digits unchanged without
\* asking the table; otherwise the code of the entry whose name is the
\* location; otherwise the code of the first entry, in load order, whose
\* name contains the location or is contained in it; and None exactly when
\* none of these applies.
C5_Resolution ==
    call.op = "_get_adcode" =>
        LET d == city_to_adcode
            s == call.location
            exact == {i \in 1..Len(d) : ExactAt(d, s, i)}
            partial == {i \in 1..Len(d) : PartialAt(d, s, i)}
        IN  /\ SixDigits(s) => result.value = s /\ result.resolves = 0
            /\ ~SixDigits(s) /\ exact # {} =>
                  \E i \in exact : result.value = d[i].adcode
            /\ ~SixDigits(s) /\ exact = {} /\ partial # {} =>
                  \E i \in partial :
                      /\ \A j \in partial : i <= j
                      /\ result.value = d[i].adcode
            /\ result.value = None <=>
                  ~SixDigits(s) /\ exact = {} /\ partial = {}

\* an exact match that comes after another entry's partial match
C5_Witness ==
    /\ call.op = "_get_adcode"
    /\ Len(city_to_adcode) = 2
    /\ ExactAt(city_to_adcode, call.location, 2)
    /\ PartialAt(city_to_adcode, call.location, 1)
    /\ city_to_adcode[1].adcode # city_to_adcode[2].adcode
    /\ result.value = city_to_adcode[2].adcode

\* the forecast lookup can succeed: the location resolves and the API answers
LookupSucceeds ==
    /\ _get_adcode(city_to_adcode, call.location).value # None
    /\ call.http = "ok"

\* C6: get_weather_forecast limits days to 1..3, and with a weather service
\* and a forecast lookup that succeeds it returns the formatted forecast,
\* not an error string.
C6_Forecast ==
    call.op = "get_weather_forecast" =>
        /\ LimitDays(call.days) \in 1..3
        /\ call.days < 1 => LimitDays(call.days) = 1
        /\ call.days > 3 => LimitDays(call.days) = 3
        /\ weather_service # "None" /\ LookupSucceeds =>
              /\ ~result.raised
              /\ result.value.text = "formatted forecast"

====
